---- MODULE Spec2Model ----
(***************************************************************************)
(* Market-data caching and screening engine.                               *)
(*                                                                         *)
(*   src/app.py            get_cached_or_fetch: the process-wide cache     *)
(*   src/backend/main.py   run_screener, calculate_stock_score (v2)        *)
(*   src/main.py           run_screener, calculate_score (v1)              *)
(*   src/backend_api.py    AIAnalysisService, monitor_alerts               *)
(***************************************************************************)
EXTENDS Integers, Sequences, FiniteSets, TLC

(***************************************************************************)
(* Bounds of the model.                                                    *)
(***************************************************************************)
\* number of distinct payloads the upstream may return
NumValues == 2
\* total number of get_cached_or_fetch calls in one behaviour
MaxCalls == 4
\* how many seconds around 0 and around the TTL the clock is sampled
MaxSkew == 1
\* largest `limit` a scan request carries
MaxLimit == 4
\* longest price series
MaxBars == 22
\* number of rows of the alerts table
NumAlerts == 2
\* number of cycles of the alert monitor
MaxCycles == 2

\* src/app.py:14
CACHE_DURATION == 300

\* request threads of the (threaded) Flask server
Callers == {"t1", "t2"}
\* cache keys, f"stock_{symbol}" (src/app.py:197)
Keys == {"stock_A", "stock_B"}
\* the keys the single-key specification requests
HotKeys == {"stock_A"}
\* no key (a thread outside get_cached_or_fetch)
NoKey == "-"
\* the payloads fetch_function may return, besides None
Values == {ToString(i) : i \in 1..NumValues}

\* the instants at which time.time() is sampled (whole seconds)
Times ==
    (0..MaxSkew) \cup ((CACHE_DURATION - 1)..(CACHE_DURATION + 1 + MaxSkew))

\* Python's None
None == "None"

VARIABLES
    cache,          \* src/app.py:13  dict: key -> [data, timestamp]
    now,            \* the wall clock read by time.time()
    pc,             \* per caller: position inside get_cached_or_fetch
    key,            \* per caller: the key argument
    current_time,   \* per caller: the local current_time (line 18)
    result,         \* per caller: the returned value
    outcome,        \* per caller: how the call ended
    storedAt,       \* per key: clock value when line 30 last ran for it
    calls,          \* number of calls started so far
    NSE_STOCKS,     \* the universe list, in its processing order
    impl,           \* which run_screener serves the request: "v1" | "v2"
    criteria,       \* request.criteria, a dict
    limit,          \* request.limit
    spc,            \* position inside run_screener
    feed,           \* what get_indian_stock_data returned, per symbol so far
    results,        \* the local list `results`
    processed_count, \* the local counter of backend/main.py
    report,         \* the dict run_screener returns
    history_calls,  \* ticker.history() calls of the last get_indian_stock_data
    service,        \* which pipeline serves a stock query: "stock"|"v1"|"ai"
    hist,           \* the price history the query fetched
    technical_data, \* the dict calculate_technical_indicators returned
    score,          \* the value the scorer returned
    qpc,            \* position inside the stock query
    closes,         \* the Close column of a price history, oldest bar first
    sma_value,      \* indicators['SMA_20'] computed from closes
    rsi_value,    \* the "rsi" entry AIAnalysisService computes from closes
    ipc,            \* which of the two computations have run
    stock_data,     \* the dict MarketDataService.get_stock_data returned
    raw_score,      \* generate_ai_score's local `score` before the clamp
    alerts,         \* the committed rows of the alerts table, by id
    active_alerts,  \* the rows the cycle's query returned, as a list of ids
    idx,            \* position of the for loop inside active_alerts
    apc,            \* position inside monitor_alerts
    price,          \* stock_data['price'] inside the loop body, else 0
    log,            \* what the task has printed (lines 501 and 511)
    attempted,      \* the alerts whose loop body has started this cycle
    cycle           \* number of cycles started; the clock of triggered_at

cacheVars ==
    <<cache, now, pc, key, current_time, result, outcome, storedAt, calls>>

scanVars ==
    <<NSE_STOCKS, impl, criteria, limit, spc, feed, results, processed_count,
      report, history_calls>>

stockVars == <<service, hist, technical_data, score, qpc>>

seriesVars == <<closes, sma_value, rsi_value, ipc>>

aiVars == <<stock_data, raw_score>>

alertVars ==
    <<alerts, active_alerts, idx, apc, price, log, attempted, cycle>>

vars == <<cacheVars, scanVars, stockVars, seriesVars, aiVars, alertVars>>

(***************************************************************************)
(* src/app.py: get_cached_or_fetch                                         *)
(***************************************************************************)
\* `key in cache`
InCache(k) == k \in DOMAIN cache

\* a TTL comparison that is one second short
IsFreshOffByOne(k, t) ==
    /\ InCache(k)
    /\ t - cache[k].timestamp < CACHE_DURATION - 1

\* line 22: current_time - timestamp < CACHE_DURATION
IsFresh(k, t) ==
    /\ InCache(k)
    /\ t - cache[k].timestamp < CACHE_DURATION

CacheInit ==
    /\ cache = [k \in {} |-> None]
    /\ now = 0
    /\ pc = [c \in Callers |-> "idle"]
    /\ key = [c \in Callers |-> NoKey]
    /\ current_time = [c \in Callers |-> 0]
    /\ result = [c \in Callers |-> None]
    /\ outcome = [c \in Callers |-> None]
    /\ storedAt = [k \in {} |-> 0]
    /\ calls = 0

\* line 16-18: the call is entered and reads the clock
Begin(c, k) ==
    /\ pc[c] = "idle"
    /\ calls < MaxCalls
    /\ calls' = calls + 1
    /\ pc' = [pc EXCEPT ![c] = "lookup"]
    /\ key' = [key EXCEPT ![c] = k]
    /\ current_time' = [current_time EXCEPT ![c] = now]
    /\ UNCHANGED <<cache, now, result, outcome, storedAt>>
    /\ UNCHANGED <<scanVars, stockVars, seriesVars, aiVars, alertVars>>

\* a lookup that deletes the entry it finds expired
LookupEvicting(c) ==
    /\ pc[c] = "lookup"
    /\ IF IsFresh(key[c], current_time[c])
       THEN /\ pc' = [pc EXCEPT ![c] = "done"]
            /\ result' = [result EXCEPT ![c] = cache[key[c]].data]
            /\ outcome' = [outcome EXCEPT ![c] = "hit"]
            /\ cache' = cache
       ELSE /\ pc' = [pc EXCEPT ![c] = "sleep"]
            /\ cache' = [k \in DOMAIN cache \ {key[c]} |-> cache[k]]
            /\ UNCHANGED <<result, outcome>>
    /\ UNCHANGED <<now, key, current_time, storedAt, calls>>
    /\ UNCHANGED <<scanVars, stockVars, seriesVars, aiVars, alertVars>>

\* lines 20-23: a fresh entry is returned, anything else falls through
Lookup(c) ==
    /\ pc[c] = "lookup"
    /\ IF IsFresh(key[c], current_time[c])
       THEN /\ pc' = [pc EXCEPT ![c] = "done"]
            /\ result' = [result EXCEPT ![c] = cache[key[c]].data]
            /\ outcome' = [outcome EXCEPT ![c] = "hit"]
       ELSE /\ pc' = [pc EXCEPT ![c] = "sleep"]
            /\ UNCHANGED <<result, outcome>>
    /\ UNCHANGED <<cache, now, key, current_time, storedAt, calls>>
    /\ UNCHANGED <<scanVars, stockVars, seriesVars, aiVars, alertVars>>

\* line 26 then line 29: the delay ends and fetch_function is invoked
InvokeFetch(c) ==
    /\ pc[c] = "sleep"
    /\ pc' = [pc EXCEPT ![c] = "fetch"]
    /\ UNCHANGED <<cache, now, key, current_time, result, outcome, storedAt, calls>>
    /\ UNCHANGED <<scanVars, stockVars, seriesVars, aiVars, alertVars>>

\* a store that rebuilds the dict with the one key
StoreAlone(c, v) ==
    [k \in {key[c]} |-> [data |-> v, timestamp |-> current_time[c]]]

\* line 30: cache[key] = (data, current_time)
Store(c, v) ==
    [k \in DOMAIN cache \cup {key[c]} |->
        IF k = key[c] THEN [data |-> v, timestamp |-> current_time[c]]
                      ELSE cache[k]]

\* a return that caches real data only and hands None through
FetchReturnSkipsNone(c, v) ==
    /\ pc[c] = "fetch"
    /\ cache' = IF v = None THEN cache ELSE Store(c, v)
    /\ storedAt' = IF v = None THEN storedAt
                   ELSE [k \in DOMAIN storedAt \cup {key[c]} |->
                            IF k = key[c] THEN now ELSE storedAt[k]]
    /\ result' = [result EXCEPT ![c] = v]
    /\ outcome' = [outcome EXCEPT ![c] = "fetched"]
    /\ pc' = [pc EXCEPT ![c] = "done"]
    /\ UNCHANGED <<now, key, current_time, calls>>
    /\ UNCHANGED <<scanVars, stockVars, seriesVars, aiVars, alertVars>>

\* lines 29-31: fetch_function returns v (None included)
FetchReturn(c, v) ==
    /\ pc[c] = "fetch"
    /\ cache' = Store(c, v)
    /\ storedAt' = [k \in DOMAIN storedAt \cup {key[c]} |->
                        IF k = key[c] THEN now ELSE storedAt[k]]
    /\ result' = [result EXCEPT ![c] = v]
    /\ outcome' = [outcome EXCEPT ![c] = "fetched"]
    /\ pc' = [pc EXCEPT ![c] = "done"]
    /\ UNCHANGED <<now, key, current_time, calls>>
    /\ UNCHANGED <<scanVars, stockVars, seriesVars, aiVars, alertVars>>

\* an except clause that re-raises without looking at the cache
FetchRaiseNoFallback(c) ==
    /\ pc[c] = "fetch"
    /\ result' = [result EXCEPT ![c] = None]
    /\ outcome' = [outcome EXCEPT ![c] = "raised"]
    /\ pc' = [pc EXCEPT ![c] = "done"]
    /\ UNCHANGED <<cache, now, key, current_time, storedAt, calls>>
    /\ UNCHANGED <<scanVars, stockVars, seriesVars, aiVars, alertVars>>

\* an except clause that swallows the error and caches None
FetchRaiseStoresNone(c) ==
    /\ pc[c] = "fetch"
    /\ IF InCache(key[c])
       THEN /\ result' = [result EXCEPT ![c] = cache[key[c]].data]
            /\ outcome' = [outcome EXCEPT ![c] = "fallback"]
            /\ cache' = cache
       ELSE /\ result' = [result EXCEPT ![c] = None]
            /\ outcome' = [outcome EXCEPT ![c] = "fallback"]
            /\ cache' = [k \in DOMAIN cache \cup {key[c]} |->
                            IF k = key[c]
                            THEN [data |-> None, timestamp |-> current_time[c]]
                            ELSE cache[k]]
    /\ pc' = [pc EXCEPT ![c] = "done"]
    /\ UNCHANGED <<now, key, current_time, storedAt, calls>>
    /\ UNCHANGED <<scanVars, stockVars, seriesVars, aiVars, alertVars>>

\* lines 32-36: fetch_function raised
FetchRaise(c) ==
    /\ pc[c] = "fetch"
    /\ IF InCache(key[c])
       THEN /\ result' = [result EXCEPT ![c] = cache[key[c]].data]
            /\ outcome' = [outcome EXCEPT ![c] = "fallback"]
       ELSE /\ result' = [result EXCEPT ![c] = None]
            /\ outcome' = [outcome EXCEPT ![c] = "raised"]
    /\ pc' = [pc EXCEPT ![c] = "done"]
    /\ UNCHANGED <<cache, now, key, current_time, storedAt, calls>>
    /\ UNCHANGED <<scanVars, stockVars, seriesVars, aiVars, alertVars>>

\* the caller has its answer; the thread is free for the next request
Return(c) ==
    /\ pc[c] = "done"
    /\ pc' = [pc EXCEPT ![c] = "idle"]
    /\ key' = [key EXCEPT ![c] = NoKey]
    /\ current_time' = [current_time EXCEPT ![c] = 0]
    /\ result' = [result EXCEPT ![c] = None]
    /\ outcome' = [outcome EXCEPT ![c] = None]
    /\ UNCHANGED <<cache, now, storedAt, calls>>
    /\ UNCHANGED <<scanVars, stockVars, seriesVars, aiVars, alertVars>>

\* time passes
Tick(t) ==
    /\ t > now
    /\ now' = t
    /\ UNCHANGED <<cache, pc, key, current_time, result, outcome, storedAt, calls>>
    /\ UNCHANGED <<scanVars, stockVars, seriesVars, aiVars, alertVars>>

CacheNext ==
    \/ \E c \in Callers, k \in HotKeys : Begin(c, k)
    \/ \E c \in Callers : Lookup(c)
    \/ \E c \in Callers : InvokeFetch(c)
    \/ \E c \in Callers, v \in Values \cup {None} : FetchReturn(c, v)
    \/ \E c \in Callers : FetchRaise(c)
    \/ \E c \in Callers : Return(c)
    \/ \E t \in Times : Tick(t)

(***************************************************************************)
(* Dicts, lists and the data one symbol's fetch yields                     *)
(***************************************************************************)
\* the empty dict {}
EmptyDict == [k \in {} |-> 0]

\* dict.get(k, default)
Get(d, k, default) == IF k \in DOMAIN d THEN d[k] ELSE default

Min(a, b) == IF a <= b THEN a ELSE b
Max(a, b) == IF a >= b THEN a ELSE b

\* list[:n], negative n counted from the end
PySlice(seq, n) ==
    IF n >= 0
    THEN SubSeq(seq, 1, Min(n, Len(seq)))
    ELSE SubSeq(seq, 1, Max(Len(seq) + n, 0))

\* three of the NSE symbols, and their alphabetical rank
Symbols == {"HDFCBANK", "RELIANCE", "TCS"}
SymbolRank == [HDFCBANK |-> 1, RELIANCE |-> 2, TCS |-> 3]

\* the list as the source writes it: RELIANCE, TCS, HDFCBANK, ...
SourceOrder == <<"RELIANCE", "TCS", "HDFCBANK">>

\* every ordering of the universe
Orderings ==
    {o \in [1..Cardinality(Symbols) -> Symbols] :
        \A i, j \in DOMAIN o : i # j => o[i] # o[j]}

\* the keys of the indicator dict that the screener and the scorers read
IndicatorKeys == {"RSI", "MACD", "MACD_Signal", "SMA_20", "ADX", "Volume_SMA"}

FullInd(rsi, macd, sig, sma, adx, vsma) ==
    [RSI |-> rsi, MACD |-> macd, MACD_Signal |-> sig, SMA_20 |-> sma,
     ADX |-> adx, Volume_SMA |-> vsma]

\* What one symbol's fetch and indicator computation yield: the number of
\* bars of the DataFrame (0: empty, the fetch failed), the indicator values
\* that are numbers, the keys whose value is NaN, and the latest bar.
\* "Volume" in nan: the latest bar's volume is NaN.
Failed ==
    [bars |-> 0, ind |-> EmptyDict, nan |-> {}, Close |-> 0, Volume |-> 0]
ShortRaised ==
    [bars |-> 10, ind |-> EmptyDict, nan |-> {}, Close |-> 110, Volume |-> 130]
ShortNaN ==
    [bars |-> 10, ind |-> EmptyDict, nan |-> IndicatorKeys,
     Close |-> 110, Volume |-> 130]
Good ==
    [bars |-> 60, ind |-> FullInd(45, 2, 1, 100, 30, 100), nan |-> {},
     Close |-> 110, Volume |-> 130]
Bear ==
    [bars |-> 60, ind |-> FullInd(80, 1, 2, 100, 15, 100), nan |-> {},
     Close |-> 90, Volume |-> 100]
Unknown ==
    [bars |-> 25, ind |-> EmptyDict, nan |-> {}, Close |-> 110, Volume |-> 130]
BadVolume ==
    [bars |-> 60, ind |-> FullInd(45, 2, 1, 100, 30, 100), nan |-> {"Volume"},
     Close |-> 110, Volume |-> 0]

\* 30 bars: enough for the MACD line, not for its signal line
NoSignal ==
    [bars |-> 30,
     ind |-> [k \in IndicatorKeys \ {"MACD_Signal"} |->
                 FullInd(45, 2, 1, 100, 30, 100)[k]],
     nan |-> {}, Close |-> 110, Volume |-> 130]

Feeds ==
    {Failed, ShortRaised, ShortNaN, Good, Bear, Unknown, BadVolume, NoSignal}

\* the criteria dicts a request may carry
Criterias ==
    { EmptyDict,
      [rsi_min |-> 40, rsi_max |-> 60],
      [price_above_sma20 |-> TRUE],
      [macd_bullish |-> TRUE],
      [min_volume |-> 120] }

Limits == (0 - 1)..MaxLimit

\* src/backend/main.py:369
MinBars == 20
\* src/backend/main.py:362
ScanCap == 50

\* a scorer whose RSI rows are tested one after the other, not elif
ScoreRsiRowsNotExclusive(indicators, latest_data) ==
    LET rsi == Get(indicators, "RSI", 50)
        sma_20 == Get(indicators, "SMA_20", 0)
        adx == Get(indicators, "ADX", 0)
        vol_sma == Get(indicators, "Volume_SMA", 0)
    IN  (IF 40 <= rsi /\ rsi <= 60 THEN 15 ELSE 0)
        + (IF rsi < 30 THEN 20 ELSE 0)
        + (IF 30 <= rsi /\ rsi <= 40 THEN 10 ELSE 0)
        + (IF Get(indicators, "MACD", 0) > Get(indicators, "MACD_Signal", 0)
           THEN 15 ELSE 0)
        + (IF latest_data.Close > sma_20 /\ sma_20 > 0 THEN 10 ELSE 0)
        + (IF adx > 25 THEN 10 ELSE IF adx > 20 THEN 5 ELSE 0)
        + (IF "Volume" \notin latest_data.nan
                /\ 10 * latest_data.Volume > 12 * vol_sma /\ vol_sma > 0
           THEN 10 ELSE 0)

\* a scorer with the RSI, MACD, SMA and ADX rows but no volume row
ScoreWithoutVolumeRow(indicators, latest_data) ==
    LET rsi == Get(indicators, "RSI", 50)
        sma_20 == Get(indicators, "SMA_20", 0)
        adx == Get(indicators, "ADX", 0)
    IN  (IF 40 <= rsi /\ rsi <= 60 THEN 15
         ELSE IF rsi < 30 THEN 20
         ELSE IF 30 <= rsi /\ rsi <= 40 THEN 10 ELSE 0)
        + (IF Get(indicators, "MACD", 0) > Get(indicators, "MACD_Signal", 0)
           THEN 15 ELSE 0)
        + (IF latest_data.Close > sma_20 /\ sma_20 > 0 THEN 10 ELSE 0)
        + (IF adx > 25 THEN 10 ELSE IF adx > 20 THEN 5 ELSE 0)

(***************************************************************************)
(* src/backend/main.py: calculate_stock_score                              *)
(***************************************************************************)
calculate_stock_score(indicators, latest_data) ==
    LET rsi == Get(indicators, "RSI", 50)
        sma_20 == Get(indicators, "SMA_20", 0)
        adx == Get(indicators, "ADX", 0)
        vol_sma == Get(indicators, "Volume_SMA", 0)
        rsiPts == IF 40 <= rsi /\ rsi <= 60 THEN 15
                  ELSE IF rsi < 30 THEN 20
                  ELSE IF 30 <= rsi /\ rsi <= 40 THEN 10
                  ELSE 0
        macdPts == IF Get(indicators, "MACD", 0) >
                          Get(indicators, "MACD_Signal", 0)
                   THEN 15 ELSE 0
        smaPts == IF latest_data.Close > sma_20 /\ sma_20 > 0 THEN 10 ELSE 0
        adxPts == IF adx > 25 THEN 10 ELSE IF adx > 20 THEN 5 ELSE 0
        volPts == IF /\ "Volume" \notin latest_data.nan
                     /\ 10 * latest_data.Volume > 12 * vol_sma
                     /\ vol_sma > 0
                  THEN 10 ELSE 0
    IN  rsiPts + macdPts + smaPts + adxPts + volPts

(***************************************************************************)
(* src/main.py: calculate_score; a NaN compares false with everything      *)
(***************************************************************************)
calculate_score(d) ==
    LET rsi == Get(d.ind, "RSI", 50)
        rsiPts == IF "RSI" \in d.nan THEN 0
                  ELSE IF 30 <= rsi /\ rsi <= 70 THEN 10
                  ELSE IF rsi < 30 THEN 5
                  ELSE 0
        macdPts == IF /\ {"MACD", "MACD_Signal"} \cap d.nan = {}
                      /\ Get(d.ind, "MACD", 0) > Get(d.ind, "MACD_Signal", 0)
                   THEN 15 ELSE 0
        adxPts == IF "ADX" \notin d.nan /\ Get(d.ind, "ADX", 0) > 25
                  THEN 10 ELSE 0
    IN  rsiPts + macdPts + adxPts

(***************************************************************************)
(* run_screener: the criteria filters                                      *)
(***************************************************************************)
\* src/backend/main.py:381-407
PassesV2(d, crit) ==
    LET rsi == Get(d.ind, "RSI", 50) IN
    /\ ~("rsi_min" \in DOMAIN crit /\ rsi < crit.rsi_min)
    /\ ~("rsi_max" \in DOMAIN crit /\ rsi > crit.rsi_max)
    /\ ~(Get(crit, "price_above_sma20", FALSE)
            /\ d.Close <= Get(d.ind, "SMA_20", 0))
    /\ ~("min_volume" \in DOMAIN crit
            /\ "Volume" \notin d.nan /\ d.Volume < crit.min_volume)
    /\ ~(Get(crit, "macd_bullish", FALSE)
            /\ Get(d.ind, "MACD", 0) <= Get(d.ind, "MACD_Signal", 0))

\* src/main.py:257-277
PassesV1(d, crit) ==
    /\ ~("rsi_min" \in DOMAIN crit /\ "RSI" \notin d.nan
            /\ Get(d.ind, "RSI", 0) < crit.rsi_min)
    /\ ~("rsi_max" \in DOMAIN crit /\ "RSI" \notin d.nan
            /\ Get(d.ind, "RSI", 100) > crit.rsi_max)
    /\ ~(Get(crit, "price_above_sma20", FALSE) /\ "SMA_20" \notin d.nan
            /\ d.Close <= Get(d.ind, "SMA_20", 0))
    /\ ~("min_volume" \in DOMAIN crit
            /\ "Volume" \notin d.nan /\ d.Volume < crit.min_volume)
    /\ ~(Get(crit, "macd_bullish", FALSE)
            /\ {"MACD", "MACD_Signal"} \cap d.nan = {}
            /\ Get(d.ind, "MACD", 0) <= Get(d.ind, "MACD_Signal", 0))

(***************************************************************************)
(* run_screener: src/backend/main.py:352-447 ("v2"), src/main.py:239-307   *)
(* ("v1")                                                                  *)
(***************************************************************************)
\* list.sort(key=score, reverse=True): a stable sort, so results of equal
\* score keep the order in which they were appended
InsertByScore(sorted, r) ==
    LET ahead == Cardinality({i \in DOMAIN sorted : sorted[i].score >= r.score})
    IN  SubSeq(sorted, 1, ahead) \o <<r>> \o SubSeq(sorted, ahead + 1, Len(sorted))

RECURSIVE SortByScore(_)
SortByScore(seq) ==
    IF seq = <<>> THEN <<>>
    ELSE InsertByScore(SortByScore(SubSeq(seq, 1, Len(seq) - 1)), seq[Len(seq)])

\* backend/main.py:362 NSE_STOCKS[:min(request.limit, 50)];
\* main.py:246 NSE_STOCKS[:request.limit]
stocks_to_process ==
    IF impl = "v2" THEN PySlice(NSE_STOCKS, Min(limit, ScanCap))
                   ELSE PySlice(NSE_STOCKS, limit)

NoReport == [results |-> <<>>, total_scanned |-> 0, matches |-> 0]

ScanIdle ==
    /\ impl = "v2"
    /\ criteria = EmptyDict
    /\ limit = 0
    /\ spc = "idle"
    /\ feed = <<>>
    /\ results = <<>>
    /\ processed_count = 0
    /\ report = NoReport
    /\ history_calls = 0

\* the request arrives: results = [], criteria = request.criteria
StartScan(v, crit, lim) ==
    /\ spc = "idle"
    /\ impl' = v
    /\ criteria' = crit
    /\ limit' = lim
    /\ spc' = "loop"
    /\ UNCHANGED <<NSE_STOCKS, feed, results, processed_count, report,
                   history_calls>>
    /\ UNCHANGED <<cacheVars, stockVars, seriesVars, aiVars, alertVars>>

\* get_indian_stock_data (backend/main.py:142-176, main.py:116-145): where
\* the returned frame d came from. "cache": the cached records; "nse": the
\* first ticker.history(); "bse": the second one, made for the .BO symbol
\* after the first came back empty; "nse_raised", "bse_raised": that call
\* raised and the empty frame is returned.
Sources == {"cache", "nse", "nse_raised", "bse", "bse_raised"}

Answers(d, src) ==
    /\ src \in {"cache", "nse"} => d.bars > 0
    /\ src \in {"nse_raised", "bse_raised"} => d = Failed

HistoryCalls(src) ==
    IF src = "cache" THEN 0
    ELSE IF src \in {"nse", "nse_raised"} THEN 1
    ELSE 2

\* backend/main.py:366-367, main.py:248: the next symbol's data is fetched
FetchSymbol(d, src) ==
    /\ spc = "loop"
    /\ Len(feed) < Len(stocks_to_process)
    /\ Answers(d, src)
    /\ history_calls' = HistoryCalls(src)
    /\ feed' = Append(feed, d)
    /\ processed_count' = IF impl = "v2" THEN processed_count + 1
                                         ELSE processed_count
    /\ spc' = "body"
    /\ UNCHANGED <<NSE_STOCKS, impl, criteria, limit, results, report>>
    /\ UNCHANGED <<cacheVars, stockVars, seriesVars, aiVars, alertVars>>

\* a loop body that only skips empty data, not short series
BodyV2NoMinBars(symbol, d) ==
    IF d.bars = 0
    THEN results
    ELSE IF PassesV2(d, criteria) /\ "Volume" \notin d.nan
         THEN Append(results,
                     [symbol |-> symbol,
                      score |-> calculate_stock_score(d.ind, d)])
         ELSE results

\* backend/main.py:369-428: the rest of the loop body
BodyV2(symbol, d) ==
    IF d.bars = 0 \/ d.bars < MinBars
    THEN results
    ELSE IF PassesV2(d, criteria) /\ "Volume" \notin d.nan
         THEN Append(results,
                     [symbol |-> symbol,
                      score |-> calculate_stock_score(d.ind, d)])
         ELSE results

\* main.py:250-293: the rest of the loop body
BodyV1(symbol, d) ==
    IF d.bars = 0
    THEN results
    ELSE IF PassesV1(d, criteria) /\ "Volume" \notin d.nan
         THEN Append(results,
                     [symbol |-> symbol, score |-> calculate_score(d)])
         ELSE results

EvaluateSymbol ==
    /\ spc = "body"
    /\ LET symbol == stocks_to_process[Len(feed)]
           d == feed[Len(feed)]
       IN  results' = IF impl = "v2" THEN BodyV2(symbol, d)
                                     ELSE BodyV1(symbol, d)
    /\ spc' = "loop"
    /\ UNCHANGED <<NSE_STOCKS, impl, criteria, limit, feed, processed_count,
                   report, history_calls>>
    /\ UNCHANGED <<cacheVars, stockVars, seriesVars, aiVars, alertVars>>

\* backend/main.py:437, main.py:300
total_scanned == IF impl = "v2" THEN processed_count ELSE Len(NSE_STOCKS)

\* backend/main.py:430-443, main.py:295-304: sort and return
FinishScan ==
    /\ spc = "loop"
    /\ Len(feed) = Len(stocks_to_process)
    /\ results' = SortByScore(results)
    /\ report' = [results |-> SortByScore(results),
                  total_scanned |-> total_scanned,
                  matches |-> Len(results)]
    /\ spc' = "returned"
    /\ UNCHANGED <<NSE_STOCKS, impl, criteria, limit, feed, processed_count,
                   history_calls>>
    /\ UNCHANGED <<cacheVars, stockVars, seriesVars, aiVars, alertVars>>

ScanNext ==
    \/ \E v \in {"v1", "v2"}, crit \in Criterias, lim \in Limits :
            StartScan(v, crit, lim)
    \/ \E d \in Feeds, src \in Sources : FetchSymbol(d, src)
    \/ EvaluateSymbol
    \/ FinishScan

(***************************************************************************)
(* One stock query: history -> calculate_technical_indicators -> scorer.    *)
(* "stock": src/backend/main.py:306-345, "v1": src/main.py:253-288,         *)
(* "ai": src/backend_api.py:366-367                                        *)
(***************************************************************************)
Services == {"stock", "v1", "ai"}

\* the number of bars from which the indicator library yields a number
\* (window=14, window=20, span=26 in the source)
Window ==
    [RSI |-> 14, MACD |-> 26, MACD_Signal |-> 26, SMA_20 |-> 20, ADX |-> 14,
     Volume_SMA |-> 20]

\* len(data) of the histories a query may fetch
BarCounts == {0, 10, 15, 30}

\* the indicator values the library may yield where every window is met
LibraryValues ==
    {FullInd(rsi, macd, sig, 100, adx, vsma) :
        rsi \in {25, 30, 40, 60, 80}, macd \in {0 - 2, 1, 2}, sig \in {1, 2},
        adx \in {20, 25, 30}, vsma \in {0, 100}}

\* A history: its length, the indicator values the library yields for its
\* last bar (a key outside ind: the library yields NaN), whether a library
\* call raises, and the last bar (nan = {"Volume"}: its volume is NaN).
\* The library yields numbers only where the window is met, a signal line
\* only with a MACD line, and a zero volume average only for zero volumes.
\* NoHist is the empty DataFrame.
NoHist ==
    [bars |-> 0, ind |-> EmptyDict, raised |-> FALSE, Close |-> 0,
     Volume |-> 0, nan |-> {}]

\* the dicts of the values the library yields, NaN values left out
LibraryDicts ==
    {[k \in K |-> f[k]] : K \in SUBSET IndicatorKeys, f \in LibraryValues}

Hists ==
    {NoHist}
    \cup
    {[bars |-> b, ind |-> i, raised |-> FALSE, Close |-> c, Volume |-> v,
      nan |-> n] :
        b \in BarCounts \ {0}, i \in LibraryDicts, c \in {100, 110},
        v \in {0, 120, 130}, n \in {{}, {"Volume"}}}
    \cup
    {[bars |-> b, ind |-> EmptyDict, raised |-> TRUE, Close |-> c,
      Volume |-> v, nan |-> n] :
        b \in BarCounts \ {0}, c \in {100, 110}, v \in {0, 120, 130},
        n \in {{}, {"Volume"}}}

WellFormedHist(h) ==
    /\ \A k \in DOMAIN h.ind : h.bars >= Window[k]
    /\ "MACD_Signal" \in DOMAIN h.ind => "MACD" \in DOMAIN h.ind
    /\ h.raised => h.ind = EmptyDict
    /\ "Volume" \in h.nan => h.Volume = 0
    /\ ("Volume_SMA" \in DOMAIN h.ind /\ h.ind.Volume_SMA = 0)
            => (h.Volume = 0 /\ h.nan = {})

NoData == [ind |-> EmptyDict, nan |-> {}]

\* src/backend/main.py:178-223
calculate_technical_indicators(data) ==
    IF data.bars = 0 \/ data.bars < MinBars THEN NoData
    ELSE IF data.raised THEN NoData
    ELSE [ind |-> data.ind, nan |-> {}]

\* src/main.py:147-191: the last row of the frame, NaN columns included
calculate_technical_indicators_v1(data) ==
    IF data.bars = 0 THEN NoData
    ELSE IF data.raised THEN NoData
    ELSE [ind |-> data.ind, nan |-> IndicatorKeys \ DOMAIN data.ind]

\* src/backend_api.py:222-247: AIAnalysisService.calculate_technical_indicators;
\* ewm is the value of the unbounded ewm().mean() difference where the
\* library's MACD line has no value yet
AICalculateTechnicalIndicators(h, ewm) ==
    IF h.bars = 0
    THEN [ind |-> [rsi |-> 50, macd |-> 0], nan |-> {}]
    ELSE [ind |-> [k \in {"macd"} \cup
                            (IF "RSI" \in DOMAIN h.ind THEN {"rsi"} ELSE {}) |->
                        IF k = "rsi" THEN h.ind.RSI
                        ELSE Get(h.ind, "MACD", ewm)],
          nan |-> IF "RSI" \in DOMAIN h.ind THEN {} ELSE {"rsi"}]

StockIdle ==
    /\ service = "stock"
    /\ hist = NoHist
    /\ technical_data = NoData
    /\ score = 0
    /\ qpc = "idle"

\* the history has been fetched
StockFetched ==
    /\ service \in Services
    /\ hist \in {h \in Hists : WellFormedHist(h)}
    /\ technical_data = NoData
    /\ score = 0
    /\ qpc = "fetched"

\* backend/main.py:314-318: an empty frame ends the query with a 404
ComputeIndicators ==
    /\ qpc = "fetched" /\ service = "stock"
    /\ hist.bars # 0
    /\ technical_data' = calculate_technical_indicators(hist)
    /\ qpc' = "computed"
    /\ UNCHANGED <<service, hist, score>>
    /\ UNCHANGED <<cacheVars, scanVars, seriesVars, aiVars, alertVars>>

\* main.py:250-253: an empty frame is skipped
ComputeIndicatorsV1 ==
    /\ qpc = "fetched" /\ service = "v1"
    /\ hist.bars # 0
    /\ technical_data' = calculate_technical_indicators_v1(hist)
    /\ qpc' = "computed"
    /\ UNCHANGED <<service, hist, score>>
    /\ UNCHANGED <<cacheVars, scanVars, seriesVars, aiVars, alertVars>>

\* backend_api.py:366
ComputeIndicatorsAI(ewm) ==
    /\ qpc = "fetched" /\ service = "ai"
    /\ technical_data' = AICalculateTechnicalIndicators(hist, ewm)
    /\ qpc' = "computed"
    /\ UNCHANGED <<service, hist, score>>
    /\ UNCHANGED <<cacheVars, scanVars, seriesVars, aiVars, alertVars>>

\* backend/main.py:329
ScoreStock ==
    /\ qpc = "computed" /\ service = "stock"
    /\ score' = calculate_stock_score(technical_data.ind, hist)
    /\ qpc' = "scored"
    /\ UNCHANGED <<service, hist, technical_data>>
    /\ UNCHANGED <<cacheVars, scanVars, seriesVars, aiVars, alertVars>>

\* main.py:288
ScoreV1 ==
    /\ qpc = "computed" /\ service = "v1"
    /\ score' = calculate_score(technical_data)
    /\ qpc' = "scored"
    /\ UNCHANGED <<service, hist, technical_data>>
    /\ UNCHANGED <<cacheVars, scanVars, seriesVars, aiVars, alertVars>>

StockNext ==
    \/ ComputeIndicators
    \/ ComputeIndicatorsV1
    \/ \E ewm \in {0 - 1, 1} : ComputeIndicatorsAI(ewm)
    \/ ScoreStock
    \/ ScoreV1

(***************************************************************************)
(* Indicators computed from the Close column:                              *)
(* src/backend/main.py:202 (SMA_20), src/backend_api.py:231-244 (rsi)      *)
(***************************************************************************)
\* an exact fraction n/d; d = 0 is NaN
Frac(n, d) == [n |-> n, d |-> d]
NaN == Frac(0, 0)

RECURSIVE Sum(_)
Sum(seq) == IF seq = <<>> THEN 0 ELSE Head(seq) + Sum(Tail(seq))

\* the last w rows
Last(seq, w) == SubSeq(seq, Len(seq) - w + 1, Len(seq))

\* Series.rolling(window).mean().iloc[-1]: NaN before window rows exist
RollingMean(seq, window) ==
    IF Len(seq) < window THEN NaN ELSE Frac(Sum(Last(seq, window)), window)

\* backend/main.py:202 window=20
SmaWindow == 20
\* backend_api.py:223 period: int = 14
period == 14

\* a moving average taken at row `window`, the first row that has one
SMAOfFirstRows(close, window) ==
    IF Len(close) < window THEN NaN
    ELSE Frac(Sum(SubSeq(close, 1, window)), window)

\* ta.trend.SMAIndicator(close, window).sma_indicator().iloc[-1]
SMAIndicator(close, window) == RollingMean(close, window)

\* backend/main.py:180 and 202: the SMA_20 entry of the snapshot, NaN where
\* the snapshot has none
SMA_20(close) ==
    IF Len(close) = 0 \/ Len(close) < MinBars THEN NaN
    ELSE SMAIndicator(close, SmaWindow)

\* hist['Close'].diff() at row i; row 1 has no predecessor
delta(close, i) == close[i] - close[i - 1]

\* the differences themselves, without the where()
gainUnfiltered(close) ==
    [i \in 1..Len(close) |-> IF i >= 2 THEN delta(close, i) ELSE 0]

\* backend_api.py:232 delta.where(delta > 0, 0): NaN > 0 is false
gain(close) ==
    [i \in 1..Len(close) |->
        IF i >= 2 /\ delta(close, i) > 0 THEN delta(close, i) ELSE 0]

\* backend_api.py:233 -delta.where(delta < 0, 0)
loss(close) ==
    [i \in 1..Len(close) |->
        IF i >= 2 /\ delta(close, i) < 0 THEN 0 - delta(close, i) ELSE 0]

\* backend_api.py:232-235 and 244: rs = gain / loss;
\* rsi = 100 - (100 / (1 + rs)); x/0 is inf for x > 0 and NaN for x = 0
AIRsi(close) ==
    LET g == RollingMean(gain(close), period)
        l == RollingMean(loss(close), period)
    IN  IF g.d = 0 THEN NaN
        ELSE IF l.n = 0 THEN (IF g.n = 0 THEN NaN ELSE Frac(100, 1))
        ELSE LET rs == Frac(g.n * l.d, g.d * l.n)
                 onePlus == Frac(rs.d + rs.n, rs.d)
                 quot == Frac(100 * onePlus.d, onePlus.n)
             IN  Frac(100 * quot.d - quot.n, quot.d)

\* the Close columns a history may have: a trend, with or without a zigzag
\* and one outlying bar
Series ==
    {[i \in 1..n |-> 100 + a * i + (IF i = j THEN s ELSE 0)
                        + (IF z /\ i % 2 = 0 THEN 3 ELSE 0)] :
        n \in 1..MaxBars, a \in {0 - 1, 0, 1}, j \in 0..MaxBars,
        s \in {0 - 5, 7}, z \in BOOLEAN}

SeriesIdle ==
    /\ closes = <<>>
    /\ sma_value = NaN
    /\ rsi_value = NaN
    /\ ipc = {}

SeriesFetched ==
    /\ closes \in Series
    /\ sma_value = NaN
    /\ rsi_value = NaN
    /\ ipc = {}

ComputeSMA20 ==
    /\ "sma" \notin ipc
    /\ sma_value' = SMA_20(closes)
    /\ ipc' = ipc \cup {"sma"}
    /\ UNCHANGED <<closes, rsi_value>>
    /\ UNCHANGED <<cacheVars, scanVars, stockVars, aiVars, alertVars>>

ComputeRSI ==
    /\ "rsi" \notin ipc
    /\ rsi_value' = AIRsi(closes)
    /\ ipc' = ipc \cup {"rsi"}
    /\ UNCHANGED <<closes, sma_value>>
    /\ UNCHANGED <<cacheVars, scanVars, stockVars, aiVars, alertVars>>

SeriesNext == ComputeSMA20 \/ ComputeRSI

(***************************************************************************)
(* src/backend_api.py:249-283: AIAnalysisService.generate_ai_score, as     *)
(* get_stock calls it (364-367).                                           *)
(***************************************************************************)
\* backend_api.py:200-211: the fields of the dict get_stock_data returns
\* that the scorer reads; nan: the fields whose value is NaN (a previous
\* close of 0 makes change_percent NaN or infinite)
NoStockData ==
    [change_percent |-> 0, volume |-> 0, pe_ratio |-> 0, nan |-> {}]

StockDatas ==
    {[change_percent |-> c, volume |-> v, pe_ratio |-> p, nan |-> {}] :
        c \in {0 - 10, 0 - 5, 0 - 1, 0, 1, 5, 10}, v \in {0, 1, 120},
        p \in {0, 10, 25, 30}}
    \cup
    {[change_percent |-> 0, volume |-> v, pe_ratio |-> p,
      nan |-> {"change_percent"}] :
        v \in {0, 1, 120}, p \in {0, 10, 25, 30}}

\* the histories behind the "rsi" entry: none, too short for a value, and
\* one per RSI value
AIHists ==
    {NoHist}
    \cup
    {[bars |-> b, ind |-> i, raised |-> FALSE, Close |-> 100, Volume |-> 120,
      nan |-> {}] :
        b \in {10, 30},
        i \in {EmptyDict} \cup
              {[k \in {"RSI"} |-> r] : r \in {0, 20, 30, 50, 70, 80, 100}}}

\* backend_api.py:255-261; every comparison with NaN is false
RsiPoints(td) ==
    IF "rsi" \in td.nan THEN 0
    ELSE LET r == Get(td.ind, "rsi", 50)
         IN  IF 30 <= r /\ r <= 70 THEN 15
             ELSE IF r < 30 THEN 10
             ELSE IF r > 70 THEN 0 - 10
             ELSE 0

\* backend_api.py:264-270
ChangePoints(sd) ==
    IF "change_percent" \in sd.nan THEN 0
    ELSE LET c == sd.change_percent
         IN  IF 0 < c /\ c <= 5 THEN 15
             ELSE IF c > 5 THEN 10
             ELSE IF c < 0 - 5 THEN 0 - 15
             ELSE 0

VolumePointsOnHalfAverage(volume) ==
    IF 100 * volume > (5 * volume) * 15 THEN 10 ELSE 0

\* backend_api.py:273-276: avg_volume = volume * 0.8 and the test
\* volume > avg_volume * 1.5, both sides multiplied by 100
VolumePoints(volume) ==
    IF 100 * volume > (8 * volume) * 15 THEN 10 ELSE 0

\* backend_api.py:279-281
PePoints(pe_ratio) ==
    IF 0 < pe_ratio /\ pe_ratio < 25 THEN 5 ELSE 0

\* backend_api.py:252-281: the local `score` when line 283 is reached
RawAIScore(sd, td) ==
    50 + RsiPoints(td) + ChangePoints(sd) + VolumePoints(sd.volume)
       + PePoints(sd.pe_ratio)

\* backend_api.py:283
generate_ai_score(sd, td) ==
    Min(95, Max(5, RawAIScore(sd, td)))

AIIdle ==
    /\ stock_data = NoStockData
    /\ raw_score = 0

\* get_stock has its stock_data and asks for the indicators
AIFetched ==
    /\ service = "ai"
    /\ hist \in {h \in AIHists : WellFormedHist(h)}
    /\ technical_data = NoData
    /\ score = 0
    /\ qpc = "fetched"
    /\ stock_data \in StockDatas
    /\ raw_score = 0

\* backend_api.py:367
GenerateAIScore ==
    /\ qpc = "computed" /\ service = "ai"
    /\ raw_score' = RawAIScore(stock_data, technical_data)
    /\ score' = generate_ai_score(stock_data, technical_data)
    /\ qpc' = "scored"
    /\ UNCHANGED <<service, hist, technical_data, stock_data>>
    /\ UNCHANGED <<cacheVars, scanVars, seriesVars, alertVars>>

AINext ==
    \/ \E ewm \in {0 - 1, 1} : ComputeIndicatorsAI(ewm)
    \/ GenerateAIScore

(***************************************************************************)
(* src/backend_api.py:475-511: the background task monitor_alerts.  It is  *)
(* the only code of the file that reads or writes the alerts table.        *)
(***************************************************************************)
AlertIds == 1..NumAlerts

\* backend_api.py:103
AlertTypes == {"price_above", "price_below", "rsi_oversold"}

\* stock_data['price'] around the target value
Prices == {90, 100, 110}

\* backend_api.py:97-107: the columns of a row the monitor reads or writes;
\* triggered_at = 0 is NULL, otherwise the cycle in which utcnow() was read
AlertRows ==
    {[alert_type |-> t, target_value |-> 100, is_active |-> a,
      triggered_at |-> 0] : t \in AlertTypes, a \in BOOLEAN}

\* the rows S as the query returns them: in the order of the primary key
\* (every assignment of rows to ids is an initial state, so every order of
\* the rows' contents is covered)
Listing(S) ==
    CHOOSE q \in [1..Cardinality(S) -> S] :
        \A i, j \in 1..Cardinality(S) : i < j => q[i] < q[j]

\* backend_api.py:486-490
should_trigger(alert, p) ==
    \/ alert.alert_type = "price_above" /\ p >= alert.target_value
    \/ alert.alert_type = "price_below" /\ p <= alert.target_value

\* the task is created at startup (backend_api.py:473)
AlertIdle ==
    /\ alerts = [a \in AlertIds |-> CHOOSE r \in AlertRows : TRUE]
    /\ active_alerts = << >>
    /\ idx = 1
    /\ apc = "sleep"
    /\ price = 0
    /\ log = << >>
    /\ attempted = {}
    /\ cycle = 0

AlertsStart ==
    /\ alerts \in [AlertIds -> AlertRows]
    /\ active_alerts = << >>
    /\ idx = 1
    /\ apc = "sleep"
    /\ price = 0
    /\ log = << >>
    /\ attempted = {}
    /\ cycle = 0

QueryWithoutFilter ==
    /\ apc = "sleep"
    /\ cycle < MaxCycles
    /\ active_alerts' = Listing(AlertIds)
    /\ idx' = 1
    /\ attempted' = {}
    /\ cycle' = cycle + 1
    /\ apc' = "loop"
    /\ UNCHANGED <<alerts, price, log>>
    /\ UNCHANGED <<cacheVars, scanVars, stockVars, seriesVars, aiVars>>

\* backend_api.py:477-482: a new session and the query of the active rows
Query ==
    /\ apc = "sleep"
    /\ cycle < MaxCycles
    /\ active_alerts' = Listing({a \in AlertIds : alerts[a].is_active})
    /\ idx' = 1
    /\ attempted' = {}
    /\ cycle' = cycle + 1
    /\ apc' = "loop"
    /\ UNCHANGED <<alerts, price, log>>
    /\ UNCHANGED <<cacheVars, scanVars, stockVars, seriesVars, aiVars>>

\* the alert of the running loop body
Current == active_alerts[idx]

\* backend_api.py:500-502: the handler prints the error and continues
ErrorEntry(a) == [kind |-> "error", id |-> a]

\* backend_api.py:511
TriggeredEntry(a) == [kind |-> "triggered", id |-> a]

\* backend_api.py:484: get_stock_data returns
FetchPrice(p) ==
    /\ apc = "loop" /\ idx <= Len(active_alerts)
    /\ attempted' = attempted \cup {Current}
    /\ price' = p
    /\ apc' = "evaluate"
    /\ UNCHANGED <<alerts, active_alerts, idx, log, cycle>>
    /\ UNCHANGED <<cacheVars, scanVars, stockVars, seriesVars, aiVars>>

\* backend_api.py:484, 500-502: get_stock_data raises (HTTPException 404
\* or 500)
FetchPriceRaises ==
    /\ apc = "loop" /\ idx <= Len(active_alerts)
    /\ attempted' = attempted \cup {Current}
    /\ log' = Append(log, ErrorEntry(Current))
    /\ idx' = idx + 1
    /\ UNCHANGED <<alerts, active_alerts, apc, price, cycle>>
    /\ UNCHANGED <<cacheVars, scanVars, stockVars, seriesVars, aiVars>>

\* backend_api.py:486-492: the condition does not hold
NoTrigger ==
    /\ apc = "evaluate"
    /\ ~should_trigger(alerts[Current], price)
    /\ idx' = idx + 1
    /\ apc' = "loop"
    /\ price' = 0
    /\ UNCHANGED <<alerts, active_alerts, log, attempted, cycle>>
    /\ UNCHANGED <<cacheVars, scanVars, stockVars, seriesVars, aiVars>>

\* backend_api.py:492-495: the row is updated and the commit succeeds
Trigger ==
    /\ apc = "evaluate"
    /\ should_trigger(alerts[Current], price)
    /\ alerts' = [alerts EXCEPT ![Current].is_active = FALSE,
                                ![Current].triggered_at = cycle]
    /\ apc' = "notify"
    /\ UNCHANGED <<active_alerts, idx, price, log, attempted, cycle>>
    /\ UNCHANGED <<cacheVars, scanVars, stockVars, seriesVars, aiVars>>

\* backend_api.py:495, 500-502: db.commit() raises and the table keeps the
\* row as it was
TriggerCommitRaises ==
    /\ apc = "evaluate"
    /\ should_trigger(alerts[Current], price)
    /\ log' = Append(log, ErrorEntry(Current))
    /\ idx' = idx + 1
    /\ apc' = "loop"
    /\ price' = 0
    /\ UNCHANGED <<alerts, active_alerts, attempted, cycle>>
    /\ UNCHANGED <<cacheVars, scanVars, stockVars, seriesVars, aiVars>>

\* backend_api.py:498, 508-511
Notify ==
    /\ apc = "notify"
    /\ log' = Append(log, TriggeredEntry(Current))
    /\ idx' = idx + 1
    /\ apc' = "loop"
    /\ price' = 0
    /\ UNCHANGED <<alerts, active_alerts, attempted, cycle>>
    /\ UNCHANGED <<cacheVars, scanVars, stockVars, seriesVars, aiVars>>

\* backend_api.py:498, 500-502: the notification raises
NotifyRaises ==
    /\ apc = "notify"
    /\ log' = Append(log, ErrorEntry(Current))
    /\ idx' = idx + 1
    /\ apc' = "loop"
    /\ price' = 0
    /\ UNCHANGED <<alerts, active_alerts, attempted, cycle>>
    /\ UNCHANGED <<cacheVars, scanVars, stockVars, seriesVars, aiVars>>

\* backend_api.py:503-506: the list is exhausted, db.close() and the sleep
EndCycle ==
    /\ apc = "loop" /\ idx > Len(active_alerts)
    /\ apc' = "sleep"
    /\ UNCHANGED <<alerts, active_alerts, idx, price, log, attempted, cycle>>
    /\ UNCHANGED <<cacheVars, scanVars, stockVars, seriesVars, aiVars>>

AlertNext ==
    \/ Query
    \/ \E p \in Prices : FetchPrice(p)
    \/ FetchPriceRaises
    \/ NoTrigger
    \/ Trigger
    \/ TriggerCommitRaises
    \/ Notify
    \/ NotifyRaises
    \/ EndCycle

(***************************************************************************)
(* Specifications                                                          *)
(***************************************************************************)
\* the cache under concurrent callers of one key
Init ==
    CacheInit /\ ScanIdle /\ StockIdle /\ SeriesIdle /\ AIIdle /\ AlertIdle /\ NSE_STOCKS = SourceOrder

Next == CacheNext

Spec == Init /\ [][Next]_vars

\* one scan request, for every ordering of the universe
ScanInit ==
    /\ CacheInit /\ ScanIdle /\ StockIdle /\ SeriesIdle /\ AIIdle /\ AlertIdle
    /\ NSE_STOCKS \in Orderings

SpecScan == ScanInit /\ [][ScanNext]_vars

\* one stock query, for every history and every pipeline
StockInit ==
    /\ CacheInit /\ ScanIdle /\ StockFetched /\ SeriesIdle /\ AIIdle /\ AlertIdle
    /\ NSE_STOCKS = SourceOrder

SpecStock == StockInit /\ [][StockNext]_vars

\* the cache under concurrent callers of two keys; the clock makes the one
\* jump that expires the entries stamped 0
KeysNext ==
    \/ \E c \in Callers, k \in Keys : Begin(c, k)
    \/ \E c \in Callers : Lookup(c)
    \/ \E c \in Callers : InvokeFetch(c)
    \/ \E c \in Callers, v \in {ToString(1), None} : FetchReturn(c, v)
    \/ \E c \in Callers : FetchRaise(c)
    \/ \E c \in Callers : Return(c)
    \/ Tick(CACHE_DURATION)

SpecKeys == Init /\ [][KeysNext]_vars

\* the indicators of one Close column, for every series
SeriesInit ==
    /\ CacheInit /\ ScanIdle /\ StockIdle /\ SeriesFetched /\ AIIdle /\ AlertIdle
    /\ NSE_STOCKS = SourceOrder

SpecSeries == SeriesInit /\ [][SeriesNext]_vars

\* one query of the /api/stocks endpoint of backend_api.py, for every
\* stock_data and every RSI
AIInit ==
    /\ CacheInit /\ ScanIdle /\ SeriesIdle /\ AIFetched /\ AlertIdle
    /\ NSE_STOCKS = SourceOrder

SpecAI == AIInit /\ [][AINext]_vars

\* the background task monitor_alerts, for every content of the table
AlertInit ==
    /\ CacheInit /\ ScanIdle /\ StockIdle /\ SeriesIdle /\ AIIdle
    /\ AlertsStart
    /\ NSE_STOCKS = SourceOrder

SpecAlerts == AlertInit /\ [][AlertNext]_vars

(***************************************************************************)
(* Claims about the cache                                                  *)
(***************************************************************************)
\* the step in which caller c leaves the lookup of lines 20-23
LeavesLookup(c) == pc[c] = "lookup" /\ pc'[c] # "lookup"

\* the step in which caller c's fetch_function ends by raising
FetchFails(c) == pc[c] = "fetch" /\ pc'[c] = "done" /\ outcome'[c] # "fetched"

\* C1: concurrent callers of one key never run fetch_function side by side
\* (the fetch is executed once and shared): no two callers are inside
\* fetch_function for the same key at the same time.
C1_SingleFlight ==
    \A a, b \in Callers :
        (a # b /\ key[a] = key[b] /\ pc[a] = "fetch") => pc[b] # "fetch"

\* C2: an entry younger than the TTL is returned without a fetch, and a
\* call made after a successful fetch of its key stored its result (line 30),
\* and less than a TTL after that moment, never fetches again.
C2_NoRefetchWithinTTL ==
    [][\A c \in Callers :
        /\ (LeavesLookup(c) /\ IsFresh(key[c], current_time[c]))
              => (pc'[c] = "done" /\ result'[c] = cache[key[c]].data)
        /\ ( /\ LeavesLookup(c)
             /\ key[c] \in DOMAIN storedAt
             /\ current_time[c] > storedAt[key[c]]
             /\ current_time[c] - storedAt[key[c]] < CACHE_DURATION )
              => (pc'[c] = "done" /\ outcome'[c] = "hit")
      ]_vars

\* C3: when fetch_function raises and the cache holds an entry for the key,
\* expired or not, the call returns that entry's value and does not raise.
C3_FallbackOnFailure ==
    [][\A c \in Callers :
        (FetchFails(c) /\ InCache(key[c]))
            => /\ outcome'[c] # "raised"
               /\ result'[c] = cache[key[c]].data
      ]_vars

\* a call that ended with the value of an expired entry after a failed fetch
C3_Witness ==
    \E c \in Callers :
        /\ pc[c] = "done"
        /\ outcome[c] = "fallback"
        /\ InCache(key[c])
        /\ current_time[c] - cache[key[c]].timestamp >= CACHE_DURATION
        /\ result[c] = cache[key[c]].data

\* C4: when fetch_function raises and the cache holds no entry for the key,
\* the call raises (returns no value) and the key still has no entry.
C4_RaiseWithoutEntry ==
    [][\A c \in Callers :
        (FetchFails(c) /\ ~InCache(key[c]))
            => /\ outcome'[c] = "raised"
               /\ result'[c] = None
               /\ key[c] \notin DOMAIN cache'
      ]_vars

\* a call that raised while the cache has no entry for its key
C4_Witness ==
    \E c \in Callers :
        /\ pc[c] = "done"
        /\ outcome[c] = "raised"
        /\ ~InCache(key[c])

\* C5: a lookup at a time before timestamp + TTL is a hit that returns the
\* stored value and leaves the cache alone; a lookup at a time after
\* timestamp + TTL goes on to the delay and then to fetch_function
\* (timestamp 0, TTL 300: 299 hits, 301 fetches).
C5_TtlBoundary ==
    [][\A c \in Callers :
        /\ (LeavesLookup(c) /\ InCache(key[c])
                /\ current_time[c] < cache[key[c]].timestamp + CACHE_DURATION)
              => /\ pc'[c] = "done"
                 /\ outcome'[c] = "hit"
                 /\ result'[c] = cache[key[c]].data
                 /\ cache' = cache
        /\ (LeavesLookup(c) /\ InCache(key[c])
                /\ current_time[c] > cache[key[c]].timestamp + CACHE_DURATION)
              => pc'[c] = "sleep"
        /\ (pc[c] = "sleep" /\ pc'[c] # "sleep") => pc'[c] = "fetch"
      ]_vars

\* an entry stamped 0, one caller served from it at 299, another caller
\* sent on to fetch at 301
C5_Witness ==
    \E a, b \in Callers :
        /\ pc[a] = "done" /\ outcome[a] = "hit"
        /\ current_time[a] = CACHE_DURATION - 1
        /\ pc[b] \in {"sleep", "fetch"}
        /\ current_time[b] = CACHE_DURATION + 1
        /\ key[a] = key[b]
        /\ InCache(key[a])
        /\ cache[key[a]].timestamp = 0
        /\ result[a] = cache[key[a]].data

(***************************************************************************)
(* Claims about the screener                                               *)
(***************************************************************************)
\* the symbols of a result list, in order
SymbolsOf(rs) == [i \in DOMAIN rs |-> rs[i].symbol]

\* C6: the returned results are sorted by score descending, and results of
\* equal score are in ascending symbol order, whatever the order in which
\* the universe was processed.
C6_RankedOrder ==
    spc = "returned" =>
        \A i, j \in DOMAIN report.results :
            i < j =>
                \/ report.results[i].score > report.results[j].score
                \/ /\ report.results[i].score = report.results[j].score
                   /\ SymbolRank[report.results[i].symbol]
                        < SymbolRank[report.results[j].symbol]

\* the scan of C7: A with 10 bars, B with RSI 45, C with RSI 80, under
\* {rsi_min: 40, rsi_max: 60}, served by backend/main.py
C7_Case ==
    /\ spc = "returned"
    /\ impl = "v2"
    /\ criteria = [rsi_min |-> 40, rsi_max |-> 60]
    /\ Len(feed) = 3
    /\ feed[1].bars = 10
    /\ feed[2].bars >= MinBars /\ Get(feed[2].ind, "RSI", 0) = 45
    /\ "Volume" \notin feed[2].nan
    /\ feed[3].bars >= MinBars /\ Get(feed[3].ind, "RSI", 0) = 80

\* C7: that scan returns a report with total_scanned = 3 and matches = 1
\* whose results hold B alone.
C7_Scenario ==
    C7_Case =>
        /\ report.total_scanned = 3
        /\ report.matches = 1
        /\ SymbolsOf(report.results) = <<NSE_STOCKS[2]>>

\* the scan of C7 has returned
C7_Witness == C7_Case /\ Len(report.results) = 1

\* C8: every score attached to a result lies in [5, 95].
C8_ScoreClamped ==
    \A i \in DOMAIN results : 5 <= results[i].score /\ results[i].score <= 95

\* C9: a symbol whose fetch failed or whose series has fewer than 20 bars is
\* never added to results, and a returned scan has attempted every symbol of
\* the capped universe.
C9_SkipsBadSymbols ==
    /\ \A i \in DOMAIN feed :
          feed[i].bars < MinBars =>
              \A j \in DOMAIN results : results[j].symbol # stocks_to_process[i]
    /\ spc = "returned" => Len(feed) = Len(stocks_to_process)

\* C10: the report's total_scanned is the number of symbols attempted in the
\* scan and its matches is the length of its results.
C10_ReportCounts ==
    spc = "returned" =>
        /\ report.total_scanned = Len(feed)
        /\ report.matches = Len(report.results)

\* the value of indicator k is a number in what the fetch of d yielded
Known(d, k) == k \in DOMAIN d.ind /\ k \notin d.nan

\* the symbol attempted i-th is in the result list
InResults(i) ==
    \E j \in DOMAIN results : results[j].symbol = stocks_to_process[i]

\* C11: under a criteria dict with rsi_min or rsi_max, a symbol whose RSI is
\* unknown, below rsi_min or above rsi_max is not in the results.
C11_RsiFilter ==
    \A i \in DOMAIN feed :
        \/ /\ {"rsi_min", "rsi_max"} \cap DOMAIN criteria # {}
           /\ ~Known(feed[i], "RSI")
        \/ /\ "rsi_min" \in DOMAIN criteria
           /\ Known(feed[i], "RSI") /\ feed[i].ind.RSI < criteria.rsi_min
        \/ /\ "rsi_max" \in DOMAIN criteria
           /\ Known(feed[i], "RSI") /\ feed[i].ind.RSI > criteria.rsi_max
        => ~InResults(i)

\* C12: under macd_bullish, a symbol whose macd or macdSignal is unknown, or
\* whose macd is not above its macdSignal, is not in the results.
C12_MacdFilter ==
    Get(criteria, "macd_bullish", FALSE) =>
        \A i \in DOMAIN feed :
            \/ ~Known(feed[i], "MACD")
            \/ ~Known(feed[i], "MACD_Signal")
            \/ feed[i].ind.MACD <= feed[i].ind.MACD_Signal
            => ~InResults(i)

\* C13: under price_above_sma20, run_screener of backend/main.py leaves out
\* every symbol whose sma20 is unknown (the empty snapshot included) or
\* whose latest close is not above its sma20.
C13_SmaFilter ==
    (impl = "v2" /\ Get(criteria, "price_above_sma20", FALSE)) =>
        \A i \in DOMAIN feed :
            \/ ~Known(feed[i], "SMA_20")
            \/ feed[i].Close <= feed[i].ind.SMA_20
            => ~InResults(i)

\* C14: in a returned scan of backend/main.py a symbol with at least 20 bars
\* is in the results if and only if it passes every criterion present in
\* criteria (an unknown value fails the criterion that reads it); under
\* empty criteria every such symbol is in the results.
C14_AndSemantics ==
    (spc = "returned" /\ impl = "v2") =>
        \A i \in DOMAIN feed :
            LET d == feed[i]
                rsiMin == "rsi_min" \in DOMAIN criteria =>
                              Known(d, "RSI") /\ d.ind.RSI >= criteria.rsi_min
                rsiMax == "rsi_max" \in DOMAIN criteria =>
                              Known(d, "RSI") /\ d.ind.RSI <= criteria.rsi_max
                aboveSma == Get(criteria, "price_above_sma20", FALSE) =>
                              Known(d, "SMA_20") /\ d.Close > d.ind.SMA_20
                minVolume == "min_volume" \in DOMAIN criteria =>
                              /\ "Volume" \notin d.nan
                              /\ d.Volume >= criteria.min_volume
                bullish == Get(criteria, "macd_bullish", FALSE) =>
                              /\ Known(d, "MACD") /\ Known(d, "MACD_Signal")
                              /\ d.ind.MACD > d.ind.MACD_Signal
            IN  d.bars >= MinBars =>
                    (InResults(i) <=>
                        rsiMin /\ rsiMax /\ aboveSma /\ minVolume /\ bullish)

(***************************************************************************)
(* Claims about the indicators and the scorers                             *)
(***************************************************************************)
\* C15: an indicator field that is unknown contributes 0 points: the score
\* of a snapshot equals the score of the same snapshot with every unknown
\* field's row given values that earn nothing (RSI 80; MACD = signal = 0).
C15_UnknownAddsZero ==
    qpc = "scored" =>
        LET ind == technical_data.ind
            macdKnown == {"MACD", "MACD_Signal"} \subseteq DOMAIN ind
            withoutRows ==
                [k \in DOMAIN ind \cup {"RSI", "MACD", "MACD_Signal"} |->
                    IF k = "RSI" THEN Get(ind, "RSI", 80)
                    ELSE IF k \in {"MACD", "MACD_Signal"}
                         THEN (IF macdKnown THEN ind[k] ELSE 0)
                         ELSE ind[k]]
        IN  /\ service = "stock" =>
                  score = calculate_stock_score(withoutRows, hist)
            /\ service = "v1" =>
                  score = calculate_score([ind |-> withoutRows,
                                           nan |-> technical_data.nan])

\* C16: for a snapshot with RSI, MACD, MACD_Signal, SMA_20, ADX and
\* Volume_SMA all known, calculate_stock_score returns the sum of the
\* canonical table's points from base 0.
C16_CanonicalTable ==
    (qpc = "scored" /\ service = "stock"
        /\ IndicatorKeys \subseteq DOMAIN technical_data.ind) =>
        LET i == technical_data.ind
            rsiRow == IF 40 <= i.RSI /\ i.RSI <= 60 THEN 15
                      ELSE IF i.RSI < 30 THEN 20
                      ELSE IF 30 <= i.RSI /\ i.RSI < 40 THEN 10
                      ELSE 0
            macdRow == IF i.MACD > i.MACD_Signal THEN 15 ELSE 0
            smaRow == IF hist.Close > i.SMA_20 THEN 10 ELSE 0
            adxRow == IF i.ADX > 25 THEN 10
                      ELSE IF 20 < i.ADX /\ i.ADX <= 25 THEN 5
                      ELSE 0
            volRow == IF "Volume" \notin hist.nan
                            /\ 10 * hist.Volume > 12 * i.Volume_SMA
                      THEN 10 ELSE 0
        IN  score = 0 + rsiRow + macdRow + smaRow + adxRow + volRow

\* a fully known snapshot that earns every row: 20 + 15 + 10 + 10 + 10
C16_Witness ==
    /\ qpc = "scored" /\ service = "stock"
    /\ IndicatorKeys \subseteq DOMAIN technical_data.ind
    /\ technical_data.ind.RSI < 30
    /\ 10 * hist.Volume > 12 * technical_data.ind.Volume_SMA
    /\ score = 65

\* C19: in the snapshots of backend/main.py and of AIAnalysisService every
\* field present had its own window met by the series (no default stands in
\* for it), and every field whose window was met and whose value the
\* library yields is present, whatever the other fields' windows.
C19_IndependentWindows ==
    (qpc \in {"computed", "scored"} /\ service \in {"stock", "ai"}) =>
        LET lib(k) == IF k = "rsi" THEN "RSI"
                      ELSE IF k = "macd" THEN "MACD" ELSE k
        IN  /\ \A k \in DOMAIN technical_data.ind :
                  hist.bars >= Window[lib(k)]
            /\ service = "stock" =>
                  \A k \in DOMAIN hist.ind : k \in DOMAIN technical_data.ind

(***************************************************************************)
(* Further claims about the cache                                          *)
(***************************************************************************)
\* what get_cached_or_fetch hands to its caller: the returned value, or the
\* exception
Returned(c) == [value |-> result[c], raised |-> outcome[c] = "raised"]

\* C17: a return of the old entry after a failed refresh is marked stale:
\* what its caller receives differs from what the caller of a fresh hit or
\* of a successful fetch receives.
C17_StaleMarked ==
    \A a, b \in Callers :
        (/\ pc[a] = "done" /\ outcome[a] = "fallback"
         /\ current_time[a] - cache[key[a]].timestamp >= CACHE_DURATION
         /\ pc[b] = "done" /\ outcome[b] \in {"hit", "fetched"})
            => Returned(a) # Returned(b)

\* C18: cache keys are independent. A step of a call for one key leaves
\* the entry of every other key as it was, absent or present, and a call is
\* never blocked: whatever the other callers do, and whichever key they
\* fetch, its lookup, its delay, and its fetch's return or failure can
\* proceed.
C18_KeysIndependent ==
    [][ \A c \in Callers :
          /\ pc'[c] # pc[c] =>
                \A k2 \in Keys \ {key[c], key'[c]} :
                    /\ InCache(k2) <=> k2 \in DOMAIN cache'
                    /\ InCache(k2) => cache'[k2] = cache[k2]
          /\ pc[c] = "lookup" => ENABLED Lookup(c)
          /\ pc[c] = "sleep" => ENABLED InvokeFetch(c)
          /\ pc[c] = "fetch" =>
                /\ ENABLED FetchReturn(c, None)
                /\ ENABLED FetchRaise(c)
      ]_vars

\* a fetch for stock_A has stored its value while the entry of stock_B is
\* in the cache and another caller is inside the fetch for stock_B
C18_Witness ==
    \E a, b \in Callers :
        /\ pc[a] = "done" /\ outcome[a] = "fetched" /\ key[a] = "stock_A"
        /\ pc[b] = "fetch" /\ key[b] = "stock_B"
        /\ InCache("stock_B") /\ InCache("stock_A")
        /\ cache["stock_B"].data # result[a]

(***************************************************************************)
(* Further claims about the screener                                       *)
(***************************************************************************)
\* C20: for every limit a scan attempts at most limit symbols (none for a
\* limit below 1), namely the first limit symbols of the universe (all of
\* them if it has fewer), and its results never hold more than limit
\* entries.
C20_LimitCap ==
    spc # "idle" =>
        /\ Len(feed) <= Max(limit, 0)
        /\ Len(results) <= Max(limit, 0)
        /\ spc = "returned" =>
              Len(feed) = Min(Max(limit, 0), Len(NSE_STOCKS))

C22_RsiInRange ==
    LET n == Len(closes)
        drops == [i \in 1..14 |->
                    IF n - 14 + i >= 2
                        /\ closes[n - 14 + i] < closes[n - 14 + i - 1]
                    THEN closes[n - 14 + i - 1] - closes[n - 14 + i] ELSE 0]
    IN  ("rsi" \in ipc /\ n >= 14 /\ Sum(drops) > 0) =>
            /\ rsi_value.d > 0
            /\ 0 <= rsi_value.n
            /\ rsi_value.n <= 100 * rsi_value.d

\* a window with both gains and losses: an RSI strictly inside (0, 100)
C22_Witness ==
    /\ "rsi" \in ipc /\ Len(closes) >= 14
    /\ rsi_value.d > 0 /\ 0 < rsi_value.n /\ rsi_value.n < 100 * rsi_value.d

(***************************************************************************)
(* Claims about fetching                                                   *)
(***************************************************************************)
\* C23: no retry of the upstream: one get_indian_stock_data call invokes
\* the upstream quote fetch at most once.
C23_NoRetry == history_calls <= 1

(***************************************************************************)
(* Claims about the cache entries                                          *)
(***************************************************************************)
\* C24: a successful fetch replaces the key's entry, in one step, by the
\* fetched value paired with the time at which the fetch succeeded, and
\* returns that value.
C24_FreshTimestamp ==
    [][ \A c \in Callers :
          (pc[c] = "fetch" /\ pc'[c] = "done" /\ outcome'[c] = "fetched") =>
              /\ key[c] \in DOMAIN cache'
              /\ cache'[key[c]].data = result'[c]
              /\ cache'[key[c]].timestamp = now
      ]_vars

\* C25: an entry is created or replaced only by a successful fetch, which
\* is made only after the call found the key absent or expired. No step
\* removes a key, a hit leaves the cache as it was, and so does a fetch that
\* fails.
C25_OnlyFetchWrites ==
    [][ /\ \A k \in DOMAIN cache : k \in DOMAIN cache'
        /\ cache' # cache =>
              \E c \in Callers :
                  /\ pc[c] = "fetch" /\ pc'[c] = "done"
                  /\ outcome'[c] = "fetched"
                  /\ \A k \in DOMAIN cache' \ {key[c]} :
                        k \in DOMAIN cache /\ cache'[k] = cache[k]
        /\ \A c \in Callers :
              /\ (pc[c] # "done" /\ pc'[c] = "done"
                    /\ outcome'[c] \in {"hit", "fallback", "raised"})
                        => cache' = cache
              /\ (pc[c] # "fetch" /\ pc'[c] = "fetch") => pc[c] = "sleep"
              /\ (pc[c] # "sleep" /\ pc'[c] = "sleep") =>
                    /\ pc[c] = "lookup"
                    /\ \/ key[c] \notin DOMAIN cache
                       \/ current_time[c] - cache[key[c]].timestamp
                            >= CACHE_DURATION
      ]_vars

\* a refresh has failed and its caller was served the old entry, which is
\* still in the cache beside the other key's entry
C25_Witness ==
    \E c \in Callers :
        /\ pc[c] = "done" /\ outcome[c] = "fallback"
        /\ current_time[c] >= CACHE_DURATION
        /\ DOMAIN cache = Keys
        /\ cache[key[c]].data = result[c]

\* C26: under any interleaving of calls for one key the timestamp stored
\* for the key never decreases: the stored value is never replaced by the
\* result of a call that started (read the clock at line 18, then fetched)
\* before the call whose result is stored.
C26_TimestampMonotonic ==
    [][ \A k \in DOMAIN cache :
          k \in DOMAIN cache' /\ cache'[k].timestamp >= cache[k].timestamp
      ]_vars

\* C27: every return of fetch_function that does not raise counts as a
\* success: the returned value, None included, is stored under the key with
\* the call's timestamp in place of whatever was there, and while that
\* entry stands every call that reads the clock less than a TTL after its
\* timestamp gets its value, None included, without a fetch.
C27_NoneIsCached ==
    [][ \A c \in Callers :
          /\ (pc[c] = "fetch" /\ pc'[c] = "done" /\ outcome'[c] # "fallback"
                /\ outcome'[c] # "raised") =>
                /\ key[c] \in DOMAIN cache'
                /\ cache'[key[c]] = [data |-> result'[c],
                                     timestamp |-> current_time[c]]
          /\ (pc[c] = "lookup" /\ pc'[c] # "lookup"
                /\ key[c] \in DOMAIN cache
                /\ current_time[c] - cache[key[c]].timestamp < CACHE_DURATION)
                => /\ pc'[c] = "done"
                   /\ result'[c] = cache[key[c]].data
                   /\ cache' = cache
      ]_vars

\* fetch_function returned None, None is the key's entry, and another call
\* has been served that None from the cache
C27_Witness ==
    \E a, b \in Callers :
        /\ a # b /\ key[a] = key[b]
        /\ pc[a] = "done" /\ outcome[a] = "fetched" /\ result[a] = None
        /\ pc[b] = "done" /\ outcome[b] = "hit" /\ result[b] = None
        /\ cache[key[a]].data = None

(***************************************************************************)
(* Claims about the range of the scores                                    *)
(***************************************************************************)
\* C28: for every indicator dict and latest bar calculate_stock_score
\* returns one of 0, 5, 10, ..., 65.
C28_ScoreRange ==
    (qpc = "scored" /\ service = "stock") =>
        score \in {5 * i : i \in 0..13}

\* an RSI on the edge of two rows earns one of them (15), an ADX of 25
\* earns 5
C28_Witness ==
    /\ qpc = "scored" /\ service = "stock"
    /\ Get(technical_data.ind, "RSI", 0) = 40
    /\ Get(technical_data.ind, "ADX", 0) = 25
    /\ score = 20

\* C29: in generate_ai_score no volume >= 0 earns the volume bonus, so for a
\* non-negative volume the raw score lies in 25..85 and the clamp to 5..95
\* returns it unchanged
C29_VolumeBonusNeverAwarded ==
    (qpc = "scored" /\ service = "ai" /\ stock_data.volume >= 0) =>
        /\ raw_score = 50 + RsiPoints(technical_data)
                           + ChangePoints(stock_data)
                           + PePoints(stock_data.pe_ratio)
        /\ raw_score \in 25..85
        /\ score = raw_score

\* the best case: an RSI of 50, a rise of 1 percent, a P/E of 10 and a
\* positive volume score 85
C29_Witness ==
    /\ qpc = "scored" /\ service = "ai"
    /\ stock_data.volume = 120
    /\ stock_data.change_percent = 1 /\ stock_data.nan = {}
    /\ stock_data.pe_ratio = 10
    /\ Get(technical_data.ind, "rsi", 0) = 50
    /\ raw_score = 85
    /\ score = 85

(***************************************************************************)
(* Claims about the alert monitor                                          *)
(***************************************************************************)
\* the number of notifications sent for alert a
Notifications(a) ==
    Cardinality({i \in DOMAIN log : log[i] = TriggeredEntry(a)})

\* C30: an alert triggers at most once: a notification is sent only for a
\* row already committed inactive with triggered_at set, the loop body
\* starts only for rows that are active, an inactive row never becomes
\* active again, and every cycle ends with the body started for every row
\* of its query, whatever errors its alerts met
C30_TriggersAtMostOnce ==
    /\ [](\A a \in AlertIds : Notifications(a) <= 1)
    /\ [][\A a \in AlertIds :
            Notifications(a)' > Notifications(a) =>
                /\ ~alerts[a].is_active
                /\ alerts[a].triggered_at # 0
                /\ alerts[a].alert_type \in {"price_above", "price_below"}]_vars
    /\ [][\A a \in attempted' \ attempted : alerts[a].is_active]_vars
    /\ [][\A a \in AlertIds :
            ~alerts[a].is_active => ~alerts'[a].is_active]_vars
    /\ [](apc = "sleep" =>
            attempted = {active_alerts[i] : i \in DOMAIN active_alerts})

\* the first cycle met an error on one alert and then triggered another;
\* the second cycle queried the first alone and ended with one
\* notification for the other
C30_Witness ==
    /\ cycle = 2 /\ apc = "sleep"
    /\ \E a, b \in AlertIds :
        /\ a # b
        /\ Len(log) >= 2
        /\ log[1] = ErrorEntry(a)
        /\ log[2] = TriggeredEntry(b)
        /\ alerts[b].triggered_at = 1
        /\ ~alerts[b].is_active
        /\ active_alerts = <<a>>
        /\ attempted = {a}
        /\ Notifications(b) = 1

====
